---- MODULE Spec2Model ----
(***************************************************************************)
(* Persistence core of the market-miner crawler: the category tree         *)
(* (CategoryRepository, ScrapingService._find_or_create_category), the     *)
(* retailer_products upsert, the price_history / scraped_data time series  *)
(* and the ingestion service, over a relational store with SERIAL keys and *)
(* unique constraints.                                                      *)
(*                                                                         *)
(* Python's None is 0 for an id (SERIAL ids start at 1), -1 for a price    *)
(* and the one-element sequence NullPath for a path.  A path is a sequence *)
(* of one-character strings, so that str(), f-strings, str.replace and LIKE *)
(* act on characters as they do in the code.                               *)
(***************************************************************************)
EXTENDS Integers, Sequences, FiniteSets, TLC

\* ------------------------------------------------------------------ bounds
MaxAuto == 1
MaxUpdates == 1
MaxResolves == 2
MaxSeeds == 1
MaxLabels == 2
MaxUpserts == 3
MaxItems == 2
MaxPoints == 2
MaxSeries == 4

\* ------------------------------------------------------- None and strings
NullId == 0
NullPrice == -1
NullPath == <<"NULL">>
Names == {"A", "B"}

DigitChars == <<"0", "1", "2", "3", "4", "5", "6", "7", "8", "9">>
Dot == <<".">>
NoneStr == <<"N", "o", "n", "e">>

\* str(n) of a non-negative int
RECURSIVE Str(_)
Str(n) == IF n < 10 THEN <<DigitChars[n + 1]>>
          ELSE Str(n \div 10) \o <<DigitChars[(n % 10) + 1]>>

\* an Optional[str] inside an f-string: None prints as "None"
FStr(p) == IF p = NullPath THEN NoneStr ELSE p

StartsWith(s, p) == Len(s) >= Len(p) /\ SubSeq(s, 1, Len(p)) = p

\* s.replace(old, new): every non-overlapping occurrence, left to right
RECURSIVE Replace(_, _, _)
Replace(s, old, new) ==
    IF Len(s) < Len(old) THEN s
    ELSE IF SubSeq(s, 1, Len(old)) = old
         THEN new \o Replace(SubSeq(s, Len(old) + 1, Len(s)), old, new)
         ELSE <<s[1]>> \o Replace(Tail(s), old, new)

VARIABLES categories, catSeq, lastCat, hashOf, resolver,
          retailer_products, rpSeq, writer, rpLog, now,
          products, prodSeq, scraped_data, sdSeq, price_history, phSeq, lastItem, schema,
          availability_keywords, dbPipeline,
          items_processed, items_dropped, lastValid,
          priceIn, priceOut, aggItem, finder

catVars == <<categories, catSeq, lastCat, hashOf, resolver>>
rpVars == <<retailer_products, rpSeq, writer, rpLog>>
sdVars == <<products, prodSeq, scraped_data, sdSeq, lastItem, availability_keywords, dbPipeline>>
phVars == <<price_history, phSeq>>
valVars == <<items_processed, items_dropped, lastValid>>
priceVars == <<priceIn, priceOut>>
vars == <<catVars, rpVars, sdVars, phVars, valVars, priceVars, now, schema, aggItem, finder>>

\* --------------------------------------------------- the categories table
\* CategoryData, the columns the repository reads and writes
CategoryData(id, name, parent_id, path) ==
    [id |-> id, name |-> name, parent_id |-> parent_id, path |-> path]

\* select * where id = id (BaseRepository.get_by_id); {} when absent
get_by_id(cats, id) == {c \in cats : c.id = id}

\* select * where path = path; SQL equality never matches a NULL path
get_by_path(cats, path) == {c \in cats : c.path # NullPath /\ c.path = path}

\* path LIKE '<path>.%' and path <> '<path>'
get_descendants(cats, path) ==
    {c \in cats : c.path # NullPath /\ c.path # FStr(path)
                  /\ StartsWith(c.path, FStr(path) \o Dot)}

\* the store's constraints on categories: primary key, foreign key on
\* parent_id, UNIQUE (name, parent_id) where NULL parents never conflict
CatConstraintsOk(cats, row) ==
    /\ \A c \in cats : c.id # row.id
    /\ row.parent_id # NullId => \E c \in cats : c.id = row.parent_id
    /\ \A c \in cats : ~(c.name = row.name /\ c.parent_id = row.parent_id
                         /\ row.parent_id # NullId)

\* BaseRepository.create on categories: to_dict drops the None fields, the
\* store fills an absent id from the sequence (consumed even when the insert
\* is then rejected) and leaves an absent parent_id / path NULL
CatInsert(cats, seq, m) ==
    LET id   == IF m.id = NullId THEN seq + 1 ELSE m.id
        seq2 == IF m.id = NullId THEN seq + 1 ELSE seq
        row  == CategoryData(id, m.name, m.parent_id, m.path)
    IN IF CatConstraintsOk(cats, row)
       THEN [ok |-> TRUE, cats |-> cats \cup {row}, seq |-> seq2, row |-> row]
       ELSE [ok |-> FALSE, cats |-> cats, seq |-> seq2, row |-> row]

\* the path CategoryRepository.create gives a record under a parent, and at
\* the root; a record without an id gets the parent's path, or None
ChildPath(m, parent) ==
    IF m.id # NullId THEN FStr(parent.path) \o Dot \o Str(m.id) ELSE parent.path

RootPath(m) == IF m.id # NullId THEN Str(m.id) ELSE NullPath

\* CategoryRepository.create
CatCreate(cats, seq, m) ==
    IF m.parent_id # NullId
    THEN IF get_by_id(cats, m.parent_id) = {}
         THEN [ok |-> FALSE, cats |-> cats, seq |-> seq, row |-> m]
         ELSE LET parent == CHOOSE c \in cats : c.id = m.parent_id
              IN CatInsert(cats, seq, [m EXCEPT !.path = ChildPath(m, parent)])
    ELSE CatInsert(cats, seq, [m EXCEPT !.path = RootPath(m)])

\* BaseRepository.update on categories: UPDATE ... WHERE id = m.id of the
\* fields to_dict keeps; a None parent_id or path is dropped and so keeps the
\* stored value.  Fails on a constraint, or when no row has that id.
CatStoreUpdate(cats, m) ==
    IF get_by_id(cats, m.id) = {}
    THEN [ok |-> FALSE, cats |-> cats]
    ELSE LET old  == CHOOSE c \in cats : c.id = m.id
             row  == CategoryData(m.id, m.name,
                        IF m.parent_id # NullId THEN m.parent_id ELSE old.parent_id,
                        IF m.path # NullPath THEN m.path ELSE old.path)
             rest == cats \ {old}
         IN IF CatConstraintsOk(rest, row)
            THEN [ok |-> TRUE, cats |-> rest \cup {row}]
            ELSE [ok |-> FALSE, cats |-> cats]

\* the loop over descendants of CategoryRepository.update: each one's path
\* through str.replace, each written by its own store call
RewriteDescendants(cats, oldPath, newPath) ==
    LET ds == get_descendants(cats, oldPath)
    IN (cats \ ds) \cup {[d EXCEPT !.path = Replace(d.path, oldPath, newPath)] : d \in ds}

\* update that moves a record to the root when its new parent is missing
CatUpdateDetaches(cats, m) ==
    IF m.id = NullId \/ get_by_id(cats, m.id) = {}
    THEN [ok |-> FALSE, cats |-> cats]
    ELSE LET current == CHOOSE c \in cats : c.id = m.id
         IN IF current.parent_id = m.parent_id
            THEN CatStoreUpdate(cats, m)
            ELSE IF m.parent_id # NullId /\ get_by_id(cats, m.parent_id) = {}
            THEN CatStoreUpdate(cats, [m EXCEPT !.parent_id = NullId, !.path = Str(m.id)])
            ELSE LET newPath == IF m.parent_id # NullId
                                THEN FStr((CHOOSE c \in cats : c.id = m.parent_id).path)
                                     \o Dot \o Str(m.id)
                                ELSE Str(m.id)
                 IN \* replace(None, ...) raises TypeError at the first descendant
                    IF current.path = NullPath /\ get_descendants(cats, current.path) # {}
                    THEN [ok |-> FALSE, cats |-> cats]
                    ELSE CatStoreUpdate(RewriteDescendants(cats, current.path, newPath),
                                        [m EXCEPT !.path = newPath])

\* CategoryRepository.update
CatUpdate(cats, m) ==
    IF m.id = NullId \/ get_by_id(cats, m.id) = {}
    THEN [ok |-> FALSE, cats |-> cats]
    ELSE LET current == CHOOSE c \in cats : c.id = m.id
         IN IF current.parent_id = m.parent_id
            THEN CatStoreUpdate(cats, m)
            ELSE IF m.parent_id # NullId /\ get_by_id(cats, m.parent_id) = {}
            THEN [ok |-> FALSE, cats |-> cats]
            ELSE LET newPath == IF m.parent_id # NullId
                                THEN FStr((CHOOSE c \in cats : c.id = m.parent_id).path)
                                     \o Dot \o Str(m.id)
                                ELSE Str(m.id)
                 IN \* replace(None, ...) raises TypeError at the first descendant
                    IF current.path = NullPath /\ get_descendants(cats, current.path) # {}
                    THEN [ok |-> FALSE, cats |-> cats]
                    ELSE CatStoreUpdate(RewriteDescendants(cats, current.path, newPath),
                                        [m EXCEPT !.path = newPath])

\* -------------------------------------------- the retailer_products table
NullStr == "None"
Urls == {"u1", "u2"}
Prices == {NullPrice, 90, 100}
Brands == {NullStr}
Writers == {1, 2}

RpColumns == {"id", "retailer_id", "url", "name", "brand", "current_price",
              "created_at", "updated_at"}

\* RetailerProduct as the service builds it: no id, created_at and updated_at
\* from the dataclass defaults (datetime.now at construction)
RetailerProduct(retailer_id, url, name, brand, price, t) ==
    [id |-> NullId, retailer_id |-> retailer_id, url |-> url, name |-> name,
     brand |-> brand, current_price |-> price, created_at |-> t, updated_at |-> t]

IsNone(k, v) ==
    CASE k = "id" -> v = NullId
      [] k = "current_price" -> v = NullPrice
      [] k = "brand" -> v = NullStr
      [] OTHER -> FALSE

\* BaseModel.to_dict: the fields whose value is not None
to_dict(model) ==
    LET keys == {k \in DOMAIN model : ~IsNone(k, model[k])}
    IN [k \in keys |-> model[k]]

\* the payload with created_at left in
UpsertDataKeepsCreatedAt(product) == to_dict(product)

\* RetailerProductRepository.upsert, the payload: to_dict without created_at
UpsertData(product) ==
    LET data == to_dict(product)
    IN [k \in DOMAIN data \ {"created_at"} |-> data[k]]

\* the column defaults of retailer_products
RpDefault(k, seq, t) ==
    CASE k = "id" -> seq + 1
      [] k = "created_at" -> t
      [] k = "updated_at" -> t
      [] k = "current_price" -> NullPrice
      [] k = "brand" -> NullStr

\* an upsert that keeps the stored row on a conflict (ignore_duplicates)
RpUpsertIgnoreDuplicates(rows, seq, data, t) ==
    LET hit == {r \in rows : r.retailer_id = data.retailer_id /\ r.url = data.url}
    IN IF hit = {}
       THEN [rows |-> rows \cup {[k \in RpColumns |->
                        IF k \in DOMAIN data THEN data[k] ELSE RpDefault(k, seq, t)]},
             seq |-> seq + 1]
       ELSE [rows |-> rows, seq |-> seq + 1]

\* the store's upsert(data, on_conflict="retailer_id,url"): INSERT ... ON
\* CONFLICT (retailer_id, url) DO UPDATE SET the columns of the payload; the
\* id default draws from the sequence whether or not the row conflicts
RpUpsert(rows, seq, data, t) ==
    LET hit == {r \in rows : r.retailer_id = data.retailer_id /\ r.url = data.url}
    IN IF hit = {}
       THEN [rows |-> rows \cup {[k \in RpColumns |->
                        IF k \in DOMAIN data THEN data[k] ELSE RpDefault(k, seq, t)]},
             seq |-> seq + 1]
       ELSE [rows |-> (rows \ hit) \cup {[k \in RpColumns |->
                        IF k \in DOMAIN data THEN data[k] ELSE r[k]] : r \in hit},
             seq |-> seq + 1]

\* retailer_products exists on the current schema only (migration 0013).
\* One upsert call per step pair: the repository builds the payload and sends
\* it (the await), the store applies it.  rpLog keeps, per applied upsert, the
\* record, the payload, the store time and who else was in flight on the key.
IdleWriter == [pc |-> "idle", product |-> RetailerProduct(1, "u1", "p", NullStr, NullPrice, 0)]

InitWriter == writer = [w \in Writers |-> IdleWriter]

CallUpsert(w, url, brand, price) ==
    /\ schema = "current"
    /\ writer[w].pc = "idle"
    /\ Len(rpLog) + Cardinality({v \in Writers : writer[v].pc = "sent"}) < MaxUpserts
    /\ writer' = [writer EXCEPT ![w] =
          [pc |-> "sent", product |-> RetailerProduct(1, url, "p", brand, price, now)]]
    /\ now' = now + 1
    /\ UNCHANGED <<retailer_products, rpSeq, rpLog, catVars, sdVars, phVars, schema, valVars, priceVars, aggItem, finder>>

ApplyUpsert(w) ==
    /\ writer[w].pc = "sent"
    /\ LET product == writer[w].product
           r == RpUpsert(retailer_products, rpSeq, UpsertData(product), now)
       IN /\ retailer_products' = r.rows
          /\ rpSeq' = r.seq
          /\ rpLog' = Append(rpLog,
                [product |-> product, at |-> now,
                 inflight |-> {v \in Writers \ {w} : /\ writer[v].pc = "sent"
                                                      /\ writer[v].product.url = product.url}])
    /\ writer' = [writer EXCEPT ![w] = IdleWriter]
    /\ now' = now + 1
    /\ UNCHANGED <<catVars, sdVars, phVars, schema, valVars, priceVars, aggItem, finder>>

NextUpsert ==
    \/ \E w \in Writers, url \in Urls, brand \in Brands, price \in Prices :
          CallUpsert(w, url, brand, price)
    \/ \E w \in Writers : ApplyUpsert(w)


\* ------------------------------------------- direct repository operations
\* lastCat: the last repository call, its arguments and whether it returned
NoCatOp == [op |-> "none", ok |-> TRUE, id |-> NullId, parent |-> NullId, updates |-> 0]

\* CategoryRepository.create called by a client with any id, name and parent
CreateCategory(id, name, parent) ==
    /\ id = NullId => catSeq < MaxAuto
    /\ LET m == CategoryData(id, name, parent, NullPath)
           r == CatCreate(categories, catSeq, m)
       IN /\ categories' = r.cats
          /\ catSeq' = r.seq
          /\ lastCat' = [op |-> "create", ok |-> r.ok, id |-> r.row.id, parent |-> parent,
                      updates |-> lastCat.updates]
    /\ UNCHANGED <<hashOf, resolver, rpVars, sdVars, phVars, now, schema, valVars, priceVars, aggItem, finder>>

\* CategoryRepository.update called with a record the client read from the
\* store (its stored name and path) and gave a new parent
UpdateCategory(id, parent) ==
    /\ categories # {}
    /\ lastCat.updates < MaxUpdates
    /\ LET stored == get_by_id(categories, id)
           m == IF stored = {} THEN CategoryData(id, "A", parent, NullPath)
                ELSE [(CHOOSE c \in stored : TRUE) EXCEPT !.parent_id = parent]
           r == CatUpdate(categories, m)
       IN /\ categories' = r.cats
          /\ lastCat' = [op |-> "update", ok |-> r.ok, id |-> id, parent |-> parent,
                      updates |-> lastCat.updates + 1]
    /\ UNCHANGED <<catSeq, hashOf, resolver, rpVars, sdVars, phVars, now, schema, valVars, priceVars, aggItem, finder>>

\* the ids a client passes: None, or an explicit id of one or of two digits
ClientIds == {1, 2, 10}
OptIds == {NullId} \cup ClientIds

\* lastItem: the last DatabasePipeline.process_item call and what it returned
NoItem == [n |-> 0, outcome |-> "none", url |-> "u1", row |-> NullId, failed |-> "none",
           storable |-> FALSE, status |-> NullStr, sighted |-> 0]

\* the validation stage before its first call
NoValid == [calls |-> 0, outcome |-> "none", reason |-> "none",
            url |-> "u1", website |-> "datart", product_name |-> "p", success |-> TRUE,
            cleaned |-> <<"p">>]

\* _extract_price not called yet
NotCalled == [called |-> FALSE, parsed |-> FALSE, digits |-> 0, scale |-> 0]

\* Python values of an item field: None, a str (its characters) or a float
\* (a decimal digits / 10^scale)
NoNumber == [digits |-> 0, scale |-> 0]
PyNone == [t |-> "None", s |-> <<>>, n |-> NoNumber]
PyText(s) == [t |-> "str", s |-> s, n |-> NoNumber]
PyFloat(n) == [t |-> "float", s |-> <<>>, n |-> n]

\* AggregatorProductItem.create_empty: price, raw_price and selected_variant
\* None; the item class declares no stock_status field
NoVariant == [selected |-> FALSE, sku |-> "none", has_offer |-> FALSE,
              offer |-> [price |-> PyNone, raw_price |-> PyNone, stock_status |-> NullStr]]
NoSelection ==
    [item |-> [price |-> PyNone, raw_price |-> PyNone, stock_status |-> NullStr,
               selected_variant |-> NoVariant],
     op |-> "none", raised |-> FALSE, selects |-> 0, variant |-> NoVariant]

\* the process_scraped_item calls in flight at once, each between two of its
\* awaits: idle, looked (the product lookup returned), linked (the product is
\* found or created), done (the record is stored)
Finders == {1, 2}
IdleFinder == [pc |-> "idle", brand |-> NullStr, found |-> NullId, product_id |-> NullId,
               row |-> NullId]

\* the tables and stages after construction, no price text at hand
InitTables ==
    /\ categories = {}
    /\ catSeq = 0
    /\ lastCat = NoCatOp
    /\ retailer_products = {}
    /\ rpSeq = 0
    /\ rpLog = <<>>
    /\ now = 1
    /\ products = {}
    /\ prodSeq = 0
    /\ scraped_data = {}
    /\ sdSeq = 0
    /\ price_history = {}
    /\ phSeq = 0
    /\ lastItem = NoItem
    /\ availability_keywords = {}
    /\ dbPipeline = [connected |-> FALSE, retailer_cache |-> {}]
    /\ items_processed = 0
    /\ items_dropped = 0
    /\ lastValid = NoValid
    /\ priceOut = NotCalled
    /\ aggItem = NoSelection
    /\ finder = [w \in Finders |-> IdleFinder]
    /\ schema = "current"

InitStore == InitTables /\ priceIn = <<>>

\* ------------------------- ScrapingService._find_or_create_category, by step
\* One resolution per worker.  The raw path is taken as its labels, already
\* split on '>' and stripped.  Every await of a store call is a step.
Workers == 1 .. MaxResolves

LabelSeqs == UNION {[1 .. n -> Names] : n \in 1 .. MaxLabels}

\* str(hash(category_name) % 1000000); hash() is seeded per process
HashSeg(name) == Str(hashOf[name])

Idle == [pc |-> "idle", labels |-> <<>>, i |-> 0, cur |-> <<>>, parent |-> NullId,
         ipath |-> NullPath, created |-> 0, result |-> NullId, after |-> {}]

InitResolver == resolver = [w \in Workers |-> Idle]

\* the call: current_path = [], parent_id = None, then the first label's segment
StartResolve(w, labels) ==
    /\ resolver[w].pc = "idle"
    /\ resolver' = [resolver EXCEPT ![w] =
          [Idle EXCEPT !.pc = "lookup", !.labels = labels, !.i = 1,
                       !.cur = HashSeg(labels[1]),
                       !.after = {v \in Workers : resolver[v].pc = "done"}]]
    /\ UNCHANGED <<categories, catSeq, lastCat, hashOf, rpVars, sdVars, phVars, now, schema, valVars, priceVars, aggItem, finder>>

\* parent_id = category.id; last_category = category; next label or return
Advance(r, id) ==
    IF r.i = Len(r.labels)
    THEN [r EXCEPT !.pc = "done", !.result = id]
    ELSE [r EXCEPT !.pc = "lookup", !.i = r.i + 1, !.parent = id,
                   !.cur = r.cur \o Dot \o HashSeg(r.labels[r.i + 1])]

\* category = await get_by_path(path): result.data[0], any of the matches
LookupPath(w) ==
    /\ resolver[w].pc = "lookup"
    /\ LET r == resolver[w]
           found == get_by_path(categories, r.cur)
       IN IF found # {}
          THEN \E c \in found : resolver' = [resolver EXCEPT ![w] = Advance(r, c.id)]
          ELSE resolver' = [resolver EXCEPT ![w] =
                 [r EXCEPT !.pc = IF r.parent # NullId THEN "parent" ELSE "insert",
                           !.ipath = RootPath(CategoryData(NullId, r.labels[r.i], r.parent, r.cur))]]
    /\ UNCHANGED <<categories, catSeq, lastCat, hashOf, rpVars, sdVars, phVars, now, schema, valVars, priceVars, aggItem, finder>>

\* CategoryRepository.create, its await of get_by_id(model.parent_id)
ReadParent(w) ==
    /\ resolver[w].pc = "parent"
    /\ LET r == resolver[w]
           ps == get_by_id(categories, r.parent)
           m  == CategoryData(NullId, r.labels[r.i], r.parent, r.cur)
       IN resolver' = [resolver EXCEPT ![w] =
            IF ps = {} THEN [r EXCEPT !.pc = "error"]
            ELSE [r EXCEPT !.pc = "insert",
                           !.ipath = ChildPath(m, CHOOSE c \in ps : TRUE)]]
    /\ UNCHANGED <<categories, catSeq, lastCat, hashOf, rpVars, sdVars, phVars, now, schema, valVars, priceVars, aggItem, finder>>

\* CategoryRepository.create, its await of the insert; a rejected insert
\* raises out of _find_or_create_category
InsertCategory(w) ==
    /\ resolver[w].pc = "insert"
    /\ LET r   == resolver[w]
           res == CatInsert(categories, catSeq,
                            CategoryData(NullId, r.labels[r.i], r.parent, r.ipath))
       IN /\ categories' = res.cats
          /\ catSeq' = res.seq
          /\ resolver' = [resolver EXCEPT ![w] =
                IF res.ok THEN Advance([r EXCEPT !.created = r.created + 1], res.row.id)
                ELSE [r EXCEPT !.pc = "error"]]
    /\ UNCHANGED <<lastCat, hashOf, rpVars, sdVars, phVars, now, schema, valVars, priceVars, aggItem, finder>>

\* a category a client made earlier through CategoryRepository.create
SeedCategory(id, name, parent) ==
    /\ \A w \in Workers : resolver[w].pc = "idle"
    /\ Cardinality(categories) < MaxSeeds
    /\ CreateCategory(id, name, parent)

InitResolve ==
    /\ InitStore
    /\ hashOf \in {[n \in Names |-> 1], [n \in Names |-> IF n = "A" THEN 1 ELSE 2]}
    /\ InitResolver
    /\ InitWriter

NextResolve ==
    \/ \E id \in {1, 2}, name \in Names, parent \in {NullId, 1} : SeedCategory(id, name, parent)
    \/ \E w \in Workers, labels \in LabelSeqs : StartResolve(w, labels)
    \/ \E w \in Workers : LookupPath(w)
    \/ \E w \in Workers : ReadParent(w)
    \/ \E w \in Workers : InsertCategory(w)

SpecResolve == InitResolve /\ [][NextResolve]_vars

InitTree ==
    /\ InitStore
    /\ hashOf = [n \in Names |-> 1]
    /\ InitResolver
    /\ InitWriter

NextTree ==
    \/ \E id \in OptIds, name \in Names, parent \in OptIds : CreateCategory(id, name, parent)
    \/ \E id \in OptIds, parent \in OptIds : UpdateCategory(id, parent)

SpecTree == InitTree /\ [][NextTree]_vars

InitUpsert ==
    /\ InitStore
    /\ hashOf = [n \in Names |-> 1]
    /\ InitResolver
    /\ InitWriter

SpecUpsert == InitUpsert /\ [][NextUpsert]_vars

\* ------------------------------------------------ ingestion and the series
\* A valid item as the validation stage hands it on.  category is the raw
\* path's labels (<<>> when the item has none), timestamp the ISO string's
\* instant, stock_info a list, currency the code or None.
ItemPrices == {NullPrice, 0, 100}
StockInfos == {<<>>, <<"in">>}
Currencies == {"CZK", "EUR"}
Spiders == {"datart", "alza"}
ItemCategories == {<<>>, <<"A">>}
Stamps == {1, 2}

StatusTexts == {"Skladem", " "}
Faults == {"none", "connect", "retailer", "product", "category", "link", "insert"}

\* stock_status is the free-text status, None when the item has no such key;
\* success is the producer's flag, brand is specs['brand'], None when absent
Item(url, price, stock_info, currency, category, timestamp) ==
    [url |-> url, product_name |-> "p", price |-> price, stock_info |-> stock_info,
     currency |-> currency, category |-> category, timestamp |-> timestamp,
     stock_status |-> NullStr, success |-> TRUE, brand |-> NullStr]

\* DatabasePipeline._get_retailer_id: the spider's retailer row, None for a
\* spider outside retailer_mapping
RetailerId(spider) ==
    IF spider = "datart" THEN 1 ELSE IF spider = "euronics" THEN 2 ELSE NullId

\* Currency(item.get('currency')): the enum has HUF and CZK, anything else
\* raises ValueError out of ScrapedData.from_scraped_item
CurrencyOk(item) == item.currency \in {NullStr, "HUF", "CZK"}

\* ProductRepository.get_by_name_and_brand: eq name, and eq brand only
\* `if brand`
get_by_name_and_brand(prods, name, brand) ==
    {q \in prods : q.name = name /\ (brand # NullStr => q.brand = brand)}

\* ScrapingService._find_or_create_product: the set of possible outcomes
\* (result.data[0] is any of the matching rows)
find_or_create_product(prods, seq, item) ==
    LET found == get_by_name_and_brand(prods, item.product_name, item.brand)
    IN IF found # {}
       THEN {[products |-> prods, seq |-> seq, id |-> q.id] : q \in found}
       ELSE {[products |-> prods \cup {[id |-> seq + 1, name |-> item.product_name,
                                        brand |-> item.brand,
                                        category_id |-> NullId]},
              seq |-> seq + 1, id |-> seq + 1]}

\* ProductRepository.update_category
update_category(prods, product_id, category_id) ==
    {IF q.id = product_id THEN [q EXCEPT !.category_id = category_id] ELSE q : q \in prods}

\* the resolution going on to the next label after a create that failed
RECURSIVE ResolveSkipping(_, _, _, _, _, _, _)
ResolveSkipping(cats, seq, labels, i, cur, parent, failAt) ==
    LET found == get_by_path(cats, cur)
        Step(c2, s2, id) ==
            IF i = Len(labels)
            THEN {[ok |-> TRUE, cats |-> c2, seq |-> s2, leaf |-> id]}
            ELSE ResolveSkipping(c2, s2, labels, i + 1,
                                 cur \o Dot \o HashSeg(labels[i + 1]), id, failAt)
    IN IF found # {}
       THEN UNION {Step(cats, seq, c.id) : c \in found}
       ELSE IF i = failAt THEN Step(cats, seq, parent)
       ELSE LET r == CatCreate(cats, seq, CategoryData(NullId, labels[i], parent, cur))
            IN IF r.ok THEN Step(r.cats, r.seq, r.row.id)
               ELSE {[ok |-> FALSE, cats |-> r.cats, seq |-> r.seq, leaf |-> NullId]}

\* ScrapingService._find_or_create_category run without interleaving, from
\* label i on: the set of possible outcomes; ok is FALSE when create raised.
\* failAt is the label whose create call the transport fails (0: none): the
\* exception leaves the loop, what earlier labels stored stays
RECURSIVE ResolveFailing(_, _, _, _, _, _, _)
ResolveFailing(cats, seq, labels, i, cur, parent, failAt) ==
    LET found == get_by_path(cats, cur)
        Step(c2, s2, id) ==
            IF i = Len(labels)
            THEN {[ok |-> TRUE, cats |-> c2, seq |-> s2, leaf |-> id]}
            ELSE ResolveFailing(c2, s2, labels, i + 1,
                                cur \o Dot \o HashSeg(labels[i + 1]), id, failAt)
    IN IF found # {}
       THEN UNION {Step(cats, seq, c.id) : c \in found}
       ELSE IF i = failAt THEN {[ok |-> FALSE, cats |-> cats, seq |-> seq, leaf |-> NullId]}
       ELSE LET r == CatCreate(cats, seq, CategoryData(NullId, labels[i], parent, cur))
            IN IF r.ok THEN Step(r.cats, r.seq, r.row.id)
               ELSE {[ok |-> FALSE, cats |-> r.cats, seq |-> r.seq, leaf |-> NullId]}

\* the same with no transport failure
ResolveFrom(cats, seq, labels, i, cur, parent) ==
    ResolveFailing(cats, seq, labels, i, cur, parent, 0)

\* the label whose create call a fault fails
FailAt(fault) == IF fault = "create1" THEN 1 ELSE IF fault = "create2" THEN 2 ELSE 0

resolve_category(cats, seq, labels, failAt) ==
    ResolveFailing(cats, seq, labels, 1, HashSeg(labels[1]), NullId, failAt)

find_or_create_category(cats, seq, labels) ==
    ResolveFrom(cats, seq, labels, 1, HashSeg(labels[1]), NullId)

\* the row BaseRepository.create stores for ScrapedData
ScrapedRow(id, item, retailer_id, product_id, category_id) ==
    [id |-> id, url |-> item.url, retailer_id |-> retailer_id, name |-> item.product_name,
     product_id |-> product_id, category_id |-> category_id, price |-> item.price,
     stock_info |-> item.stock_info, scraped_at |-> item.timestamp,
     success |-> item.success]

\* the tables the ingestion service reads and writes, as one value
Db(prods, pseq, cats, cseq, rows, rseq, kws) ==
    [products |-> prods, prodSeq |-> pseq, cats |-> cats, catSeq |-> cseq,
     rows |-> rows, sdSeq |-> rseq, keywords |-> kws]

CurrentDb == Db(products, prodSeq, categories, catSeq, scraped_data, sdSeq,
                availability_keywords)

\* status_text.strip()
Strip(text) == IF text = " " THEN "" ELSE text

\* AvailabilityKeywordRepository.get_by_retailer_and_keyword and .create read
\* self.table, an attribute the repository never sets (BaseRepository keeps
\* table_name): both raise AttributeError before any request is sent
kw_get_by_retailer_and_keyword(kws, retailer_id, keyword) ==
    [raised |-> TRUE, found |-> {}]

kw_create(kws, retailer_id, keyword) == [raised |-> TRUE, keywords |-> kws]

\* the keyword step with its try/except left out
process_availability_keyword_unguarded(kws, retailer_id, status_text) ==
    LET keyword == Strip(status_text)
        got == kw_get_by_retailer_and_keyword(kws, retailer_id, keyword)
    IN IF keyword = "" THEN [raised |-> FALSE, keywords |-> kws]
       ELSE IF got.raised THEN [raised |-> TRUE, keywords |-> kws]
       ELSE IF got.found # {} THEN [raised |-> FALSE, keywords |-> kws]
       ELSE kw_create(kws, retailer_id, keyword)

\* ScrapingService._process_availability_keyword: lookup, create when absent,
\* every exception swallowed
process_availability_keyword(kws, retailer_id, status_text) ==
    LET keyword == Strip(status_text)
        got == kw_get_by_retailer_and_keyword(kws, retailer_id, keyword)
    IN IF keyword = "" THEN [raised |-> FALSE, keywords |-> kws]
       ELSE IF got.raised THEN [raised |-> FALSE, keywords |-> kws]
       ELSE IF got.found # {} THEN [raised |-> FALSE, keywords |-> kws]
       ELSE [raised |-> FALSE, keywords |-> kw_create(kws, retailer_id, keyword).keywords]

\* process_scraped_item raising out of a failed store call of the named step,
\* the store as db
Raised(db, step) == [ok |-> FALSE, db |-> db, row |-> NullId, failed |-> step]

\* ScrapingService.process_scraped_item on the legacy schema, the possible
\* outcomes from the store db.  fault names the step whose first store call
\* the transport fails.  No step but the keyword step catches anything.
\* scraped_data has no unique constraint left (migration 0003).
process_scraped_item(db, item, retailer_id, fault) ==
    LET kw == IF item.stock_status # NullStr
              THEN process_availability_keyword(db.keywords, retailer_id, item.stock_status)
              ELSE [raised |-> FALSE, keywords |-> db.keywords]
        db1 == [db EXCEPT !.keywords = kw.keywords]
    IN IF ~CurrencyOk(item)
       THEN {[ok |-> FALSE, db |-> db, row |-> NullId, failed |-> "none"]}
       ELSE IF kw.raised THEN {Raised(db1, "keyword")}
       ELSE IF fault = "product" THEN {Raised(db1, "product")}
       ELSE UNION {
         LET db2  == [db1 EXCEPT !.products = pr.products, !.prodSeq = pr.seq]
             outs == IF item.category # <<>>
                     THEN resolve_category(db2.cats, db2.catSeq, item.category,
                                           FailAt(fault))
                     ELSE {[ok |-> TRUE, cats |-> db2.cats, seq |-> db2.catSeq,
                            leaf |-> NullId]}
         IN IF item.category # <<>> /\ fault = "category" THEN {Raised(db2, "category")}
            ELSE {LET db3 == [db2 EXCEPT !.cats = c.cats, !.catSeq = c.seq]
                      db4 == IF c.leaf # NullId
                             THEN [db3 EXCEPT !.products =
                                       update_category(db3.products, pr.id, c.leaf)]
                             ELSE db3
                  IN IF ~c.ok THEN Raised(db3, "category")
                     ELSE IF c.leaf # NullId /\ fault = "link" THEN Raised(db3, "link")
                     ELSE IF fault = "insert" THEN Raised(db4, "insert")
                     ELSE [ok |-> TRUE,
                           db |-> [db4 EXCEPT
                              !.rows = db4.rows \cup
                                 {ScrapedRow(db4.sdSeq + 1, item, retailer_id, pr.id, c.leaf)},
                              !.sdSeq = db4.sdSeq + 1],
                           row |-> db4.sdSeq + 1, failed |-> "none"] : c \in outs}
         : pr \in find_or_create_product(db1.products, db1.prodSeq, item)}

\* does the call get a retailer id: from the cache, or from the store when
\* the spider is mapped and the lookup does not fail
HasRetailer(pl, spider, fault) ==
    \/ spider \in pl.retailer_cache
    \/ RetailerId(spider) # NullId /\ fault # "retailer"

\* what process_item hands back for an exception under its try
OutcomeAlwaysItem(ok) == "stored"

\* what process_item hands back: the item, or a DropItem for an exception
Outcome(ok) == IF ok THEN "stored" ELSE "dropped"

\* the pipeline and the store after one DatabasePipeline.process_item call,
\* and what the call did: "stored" when it returned the item, "dropped" when
\* it returned a DropItem (every exception under the try), "raised_drop" when
\* it raised DropItem (the client could not be initialised); failed names
\* the step whose store call failed, "none" when none did.  On the current schema the products table is
\* gone and the first call on it fails.
process_item(pl, db, sch, spider, item, fault) ==
    IF ~pl.connected /\ fault = "connect"
    THEN {[outcome |-> "raised_drop", pl |-> pl, db |-> db, row |-> NullId,
           failed |-> "connect"]}
    ELSE LET pl1 == [pl EXCEPT !.connected = TRUE]
             pl2 == [pl1 EXCEPT !.retailer_cache = @ \cup {spider}]
         IN IF ~HasRetailer(pl, spider, fault)
            THEN {[outcome |-> Outcome(FALSE), pl |-> pl1, db |-> db, row |-> NullId,
                   failed |-> IF RetailerId(spider) # NullId THEN "retailer" ELSE "none"]}
            ELSE IF sch # "legacy"
            THEN {[outcome |-> Outcome(FALSE), pl |-> pl2, db |-> db, row |-> NullId,
                   failed |-> IF CurrencyOk(item) THEN "product" ELSE "none"]}
            ELSE {[outcome |-> Outcome(r.ok), pl |-> pl2, db |-> r.db, row |-> r.row,
                   failed |-> r.failed] :
                     r \in process_scraped_item(db, item, RetailerId(spider), fault)}

\* is the item one that a fault-free call stores on the legacy schema
Storable(spider, item) == RetailerId(spider) # NullId /\ CurrencyOk(item)

\* DatabasePipeline.process_item: what one call does to the pipeline and the store
ProcessItemEffect(spider, item, fault) ==
    \E r \in process_item(dbPipeline, CurrentDb, schema, spider, item, fault) :
          /\ dbPipeline' = r.pl
          /\ products' = r.db.products
          /\ prodSeq' = r.db.prodSeq
          /\ categories' = r.db.cats
          /\ catSeq' = r.db.catSeq
          /\ scraped_data' = r.db.rows
          /\ sdSeq' = r.db.sdSeq
          /\ availability_keywords' = r.db.keywords
          /\ lastItem' = [n |-> lastItem.n + 1, outcome |-> r.outcome,
                          url |-> item.url, row |-> r.row, failed |-> r.failed,
                          storable |-> Storable(spider, item) /\ schema = "legacy",
                          status |-> item.stock_status,
                          sighted |-> IF r.outcome = "stored" /\ Strip(item.stock_status) = "Skladem"
                                      THEN lastItem.sighted + 1 ELSE lastItem.sighted]

\* DatabasePipeline.process_item as a step of the crawl
ProcessItemStep(spider, item, fault) ==
    /\ ProcessItemEffect(spider, item, fault)
    /\ UNCHANGED <<lastCat, hashOf, resolver, rpVars, phVars, now, schema, valVars, priceVars, aggItem, finder>>

ProcessItem(spider, item) ==
    /\ lastItem.n < MaxItems
    /\ ProcessItemStep(spider, item, "none")

\* PricePointRepository.create: insert into price_history (current schema);
\* the foreign key wants the retailer_products row
AppendPricePoint(rp, price, stock_info, scraped_at) ==
    /\ schema = "current"
    /\ phSeq < MaxPoints
    /\ \E r \in retailer_products : r.id = rp
    /\ price_history' = price_history \cup
          {[id |-> phSeq + 1, retailer_product_id |-> rp, price |-> price,
            stock_info |-> stock_info, scraped_at |-> scraped_at]}
    /\ phSeq' = phSeq + 1
    /\ UNCHANGED <<catVars, rpVars, sdVars, now, schema, valVars, priceVars, aggItem, finder>>

\* ORDER BY scraped_at: every ordering of the rows the store may return
OrderBy(rows, desc) ==
    {s \in [1 .. Cardinality(rows) -> rows] :
        /\ \A i, j \in DOMAIN s : i # j => s[i] # s[j]
        /\ \A i, j \in DOMAIN s : i < j =>
              IF desc THEN s[i].scraped_at >= s[j].scraped_at
              ELSE s[i].scraped_at <= s[j].scraped_at}

Limit(s, n) == SubSeq(s, 1, IF Len(s) < n THEN Len(s) ELSE n)

\* `if item["price"]`: a null and a zero price are both falsy
Truthy(price) == price # NullPrice /\ price # 0

DefaultLimit == 100
DefaultDays == 30

\* PricePointRepository.list_by_product: most recent first, at most limit
list_by_product(rp, limit) ==
    {Limit(s, limit) : s \in OrderBy({h \in price_history : h.retailer_product_id = rp}, TRUE)}

\* ScrapedDataRepository.get_latest_by_product: order desc, limit 1
get_latest_by_product(product_id) ==
    {Limit(s, 1) : s \in OrderBy({r \in scraped_data : r.product_id = product_id}, TRUE)}

\* ScrapedDataRepository.get_price_history: the rows of the last `days` days
\* in ascending order, without those whose price is falsy
get_price_history(product_id, days) ==
    {LET kept == SelectSeq(s, LAMBDA r : Truthy(r.price))
     IN [i \in 1 .. Len(kept) |-> <<kept[i].scraped_at, kept[i].price>>] :
        s \in OrderBy({r \in scraped_data : /\ r.product_id = product_id
                                             /\ r.scraped_at >= now - days}, FALSE)}

\* the same on either schema, no price text at hand
InitEither ==
    /\ categories = {}
    /\ catSeq = 0
    /\ lastCat = NoCatOp
    /\ retailer_products = {}
    /\ rpSeq = 0
    /\ rpLog = <<>>
    /\ now = 1
    /\ products = {}
    /\ prodSeq = 0
    /\ scraped_data = {}
    /\ sdSeq = 0
    /\ price_history = {}
    /\ phSeq = 0
    /\ lastItem = NoItem
    /\ availability_keywords = {}
    /\ dbPipeline = [connected |-> FALSE, retailer_cache |-> {}]
    /\ items_processed = 0
    /\ items_dropped = 0
    /\ lastValid = NoValid
    /\ priceOut = NotCalled
    /\ aggItem = NoSelection
    /\ finder = [w \in Finders |-> IdleFinder]
    /\ schema \in {"legacy", "current"}
    /\ hashOf = [n \in Names |-> 1]
    /\ InitResolver
    /\ InitWriter

InitIngest == InitEither /\ priceIn = <<>>

NextIngest ==
    \/ \E spider \in Spiders, url \in Urls, price \in ItemPrices, stock_info \in StockInfos,
          currency \in Currencies, category \in ItemCategories, timestamp \in Stamps :
          ProcessItem(spider, Item(url, price, stock_info, currency, category, timestamp))
    \/ \E price \in Prices : CallUpsert(1, "u1", NullStr, price)
    \/ ApplyUpsert(1)
    \/ \E rp \in 1 .. MaxUpserts, price \in ItemPrices, scraped_at \in Stamps :
          AppendPricePoint(rp, price, <<>>, scraped_at)

SpecIngest == InitIngest /\ [][NextIngest]_vars

\* ------------------------------------------------- price series queries
DefaultThreshold == 5

Abs(x) == IF x < 0 THEN 0 - x ELSE x

\* the loop of get_price_changes from row i on, last_price being the price of
\* the row before (None at the start); abs((cur - last) / last * 100) >=
\* threshold with the division cleared
RECURSIVE PriceChangesFrom(_, _, _, _)
PriceChangesFrom(s, i, last_price, threshold) ==
    IF i > Len(s) THEN <<>>
    ELSE LET current_price == s[i].price
             emit == /\ Truthy(current_price)
                     /\ Truthy(last_price)
                     /\ Abs(current_price - last_price) * 100 >= threshold * Abs(last_price)
         IN (IF emit THEN <<<<s[i].scraped_at, last_price, current_price>>>> ELSE <<>>)
            \o PriceChangesFrom(s, i + 1, current_price, threshold)

\* ScrapedDataRepository.get_price_changes: the product's rows in ascending
\* scraped_at order, walked pairwise
get_price_changes(product_id, threshold) ==
    {PriceChangesFrom(s, 1, NullPrice, threshold) :
        s \in OrderBy({r \in scraped_data : r.product_id = product_id}, FALSE)}

SeriesPrices == {NullPrice, 90, 100, 106}

\* one more reading of the same product page goes through the ingestion path,
\* stamped after the readings before it
RecordReading(price) ==
    /\ lastItem.n < MaxSeries
    /\ ProcessItemStep("datart", Item("u1", price, <<>>, "CZK", <<>>, lastItem.n + 1), "none")

InitSeries == InitIngest /\ schema = "legacy"

NextSeries == \E price \in SeriesPrices : RecordReading(price)

SpecSeries == InitSeries /\ [][NextSeries]_vars

\* ------------------------------------------------ ingestion under faults
\* one item through DatabasePipeline.process_item, with or without a stock
\* status text, while the transport may fail one of the call's store requests
IngestItem(spider, item, fault) ==
    /\ lastItem.n < MaxItems
    /\ ProcessItemStep(spider, item, fault)

NextFaults ==
    \E spider \in Spiders, url \in Urls, status \in {NullStr} \cup StatusTexts,
       currency \in Currencies, category \in ItemCategories, fault \in Faults :
        IngestItem(spider, [Item(url, 100, <<>>, currency, category, lastItem.n + 1)
                                EXCEPT !.stock_status = status], fault)

SpecFaults == InitIngest /\ [][NextFaults]_vars

\* ------------------------------------------------------ category claims
\* the path a category must have: str(id) at the root, parent.path.id below
PathOk(c, cats) ==
    IF c.parent_id = NullId THEN c.path = Str(c.id)
    ELSE \E p \in cats : /\ p.id = c.parent_id
                         /\ p.path # NullPath
                         /\ c.path = p.path \o Dot \o Str(c.id)

NoDuplicateSiblings ==
    \A c, d \in categories : c.id # d.id => ~(c.name = d.name /\ c.parent_id = d.parent_id)

\* C1: after any sequence of category creations (CategoryRepository.create
\* called directly or through _find_or_create_category) every stored category
\* has path = parent.path + "." + id, or str(id) at the root.
C1_PathInvariantAfterCreate == \A c \in categories : PathOk(c, categories)

\* C2: a CategoryRepository.update that changes parent_id and returns leaves
\* the moved category at newParent.path + "." + id (str(id) under no parent)
\* and every descendant at the new path followed by the suffix it had after
\* the old path, so that the path invariant holds for the whole subtree
\* (of a tree in which it held before the call).
C2_ReparentRewritesByPrefix ==
    [][(/\ lastCat'.updates = lastCat.updates + 1
        /\ lastCat'.ok
        /\ \A c \in categories : PathOk(c, categories)
        /\ (CHOOSE c \in categories : c.id = lastCat'.id).parent_id # lastCat'.parent)
       => LET id   == lastCat'.id
              par  == lastCat'.parent
              cur  == CHOOSE c \in categories : c.id = id
              new  == CHOOSE c \in categories' : c.id = id
              want == IF par = NullId THEN Str(id)
                      ELSE FStr((CHOOSE c \in categories : c.id = par).path)
                           \o Dot \o Str(id)
              ds   == {d \in categories : d.path # NullPath /\ cur.path # NullPath
                                          /\ StartsWith(d.path, cur.path \o Dot)}
          IN /\ new.path = want
             /\ \A d \in ds :
                  LET d2 == CHOOSE c \in categories' : c.id = d.id
                  IN /\ d2.path = want \o SubSeq(d.path, Len(cur.path) + 1, Len(d.path))
                     /\ PathOk(d2, categories')
             /\ PathOk(new, categories')]_vars

\* C3: resolving the same raw path a second time, after the first resolution
\* returned, returns the same leaf, creates no row and raises no error; and
\* no two stored categories ever share (name, parent_id).  Stated of a store
\* that only resolutions have written, one after the other.
Sequential ==
    \A w, v \in Workers :
        (w # v /\ resolver[w].pc # "idle" /\ resolver[v].pc # "idle")
        => (v \in resolver[w].after \/ w \in resolver[v].after)

C3_ResolutionIdempotent ==
    (lastCat.op = "none" /\ Sequential) =>
    /\ NoDuplicateSiblings
    /\ \A w, v \in Workers :
         (/\ v \in resolver[w].after
          /\ resolver[v].labels = resolver[w].labels
          /\ resolver[w].pc \in {"done", "error"})
         => /\ resolver[w].pc = "done"
            /\ resolver[w].result = resolver[v].result
            /\ resolver[w].created = 0

\* C4: two concurrent resolutions of the same unseen label under the same
\* parent leave exactly one row for that (name, parent_id), both return that
\* row, and neither ends in an error.
C4_CreationRaceReconciled ==
    \A w, v \in Workers :
        (/\ w # v
         /\ resolver[w].labels = resolver[v].labels
         /\ v \notin resolver[w].after /\ w \notin resolver[v].after
         /\ resolver[w].pc \in {"done", "error"}
         /\ resolver[v].pc \in {"done", "error"})
        => /\ resolver[w].pc = "done" /\ resolver[v].pc = "done"
           /\ resolver[w].result = resolver[v].result
           /\ NoDuplicateSiblings

\* -------------------------------------------------------- upsert claims
\* the applied upserts of one (retailer_id, url), in the order the store
\* applied them, and the rows the store holds for it
KeyLog(url) == SelectSeq(rpLog, LAMBDA e : e.product.url = url)

KeyRows(url) == {r \in retailer_products : r.retailer_id = 1 /\ r.url = url}

\* C5: after two upserts of the same (retailer_id, url), the second carrying
\* a price different from the first one's, the store holds exactly one row
\* for the key, with the second call's price and the created_at of the first
\* insert.
C5_UpsertKeepsOneCurrentRow ==
    \A url \in Urls :
        LET log == KeyLog(url)
            n   == Len(log)
        IN (/\ n >= 2
            /\ log[n].product.current_price # NullPrice
            /\ log[n].product.current_price # log[n - 1].product.current_price)
           => /\ Cardinality(KeyRows(url)) = 1
              /\ \A r \in KeyRows(url) :
                    /\ r.current_price = log[n].product.current_price
                    /\ r.created_at = log[1].at

C5_Witness ==
    \E url \in Urls :
        LET log == KeyLog(url)
        IN /\ Len(log) = 2
           /\ log[1].product.current_price = 100
           /\ log[2].product.current_price = 90
           /\ \E r \in KeyRows(url) : r.current_price = 90 /\ r.created_at < log[2].at

\* C6: in every interleaving of upserts of the same (retailer_id, url) the
\* store never holds more than one row for the key, and the row carries, in
\* every column the last applied upsert wrote, that upsert's value.
C6_ConcurrentUpsertsSerialize ==
    \A url \in Urls :
        LET log == KeyLog(url)
            n   == Len(log)
        IN /\ Cardinality(KeyRows(url)) <= 1
           /\ n >= 1 =>
                /\ KeyRows(url) # {}
                /\ \A r \in KeyRows(url) :
                     \A k \in RpColumns \ {"id", "created_at"} :
                        ~IsNone(k, log[n].product[k]) => r[k] = log[n].product[k]

C6_Witness ==
    \E url \in Urls :
        LET log == KeyLog(url)
        IN /\ Len(log) >= 2
           /\ log[1].inflight # {}
           /\ log[1].product.current_price = 100
           /\ log[2].product.current_price = 90
           /\ log[2].product.created_at < log[1].at

\* C7: when an upsert hits an existing (retailer_id, url) row, every column
\* of the resulting row other than id and created_at equals the new record's
\* value, a None of the new record included.
C7_UpsertOverwritesWholeSnapshot ==
    \A url \in Urls :
        LET log == KeyLog(url)
            n   == Len(log)
        IN n >= 2 =>
             \A r \in KeyRows(url) :
                \A k \in RpColumns \ {"id", "created_at"} : r[k] = log[n].product[k]

\* ------------------------------------------- ingestion and history claims
\* the primary records the store holds for (retailer_id, url)
PrimaryRecords(retailer_id, url) ==
    Cardinality({r \in scraped_data : r.retailer_id = retailer_id /\ r.url = url})
    + Cardinality({r \in retailer_products : r.retailer_id = retailer_id /\ r.url = url})

\* C8: re-scraping overwrites: whatever items the ingestion path has
\* processed, the store holds at most one primary record per (retailer_id, url)
C8_RescrapeOverwrites ==
    \A url \in Urls : PrimaryRecords(RetailerId("datart"), url) <= 1

\* C9: every primary record that ingestion stored for an item with a price or
\* stock data has exactly one PricePoint keyed to its id
C9_HistoryAppendFollowsPersistence ==
    \A r \in scraped_data :
        (r.price # NullPrice \/ r.stock_info # <<>>) =>
            Cardinality({h \in price_history : h.retailer_product_id = r.id}) = 1

Ascending(times) == \A i, j \in DOMAIN times : i < j => times[i] <= times[j]

\* C10: the history query of a product returns every row appended for it, in
\* ascending scraped_at order, null and zero prices included, and the latest
\* lookup returns a row with the greatest scraped_at
C10_HistoryCompleteAndOrdered ==
    /\ \A q \in products :
          LET rows == {r \in scraped_data : r.product_id = q.id}
          IN /\ \A h \in get_price_history(q.id, DefaultDays) :
                   /\ Len(h) = Cardinality(rows)
                   /\ Ascending([i \in DOMAIN h |-> h[i][1]])
             /\ \A l \in get_latest_by_product(q.id) :
                   rows # {} => /\ Len(l) = 1
                                /\ \A r \in rows : r.scraped_at <= l[1].scraped_at
    /\ \A rp \in retailer_products :
          LET rows == {h \in price_history : h.retailer_product_id = rp.id}
          IN \A h \in list_by_product(rp.id, DefaultLimit) :
                /\ Len(h) = Cardinality(rows)
                /\ Ascending([i \in DOMAIN h |-> h[i].scraped_at])


\* ----------------------------------------------------------- series claims
\* the changes the series has when a null price is skipped: each non-null
\* price against the last non-null price before it
RECURSIVE ChangesSkippingNulls(_, _, _, _)
ChangesSkippingNulls(s, i, last, threshold) ==
    IF i > Len(s) THEN <<>>
    ELSE LET cur == s[i].price
         IN IF cur = NullPrice THEN ChangesSkippingNulls(s, i + 1, last, threshold)
            ELSE (IF last # NullPrice /\ Abs(cur - last) * 100 >= threshold * last
                  THEN <<<<s[i].scraped_at, last, cur>>>> ELSE <<>>)
                 \o ChangesSkippingNulls(s, i + 1, cur, threshold)

\* C11: get_price_changes emits exactly the changes of at least the threshold
\* between consecutive non-null prices of the chronological series, a null
\* price being skipped
C11_PriceChangesSkipNulls ==
    \A q \in products :
        get_price_changes(q.id, DefaultThreshold) =
            {ChangesSkippingNulls(s, 1, NullPrice, DefaultThreshold) :
                s \in OrderBy({r \in scraped_data : r.product_id = q.id}, FALSE)}


\* ------------------------------------------------ keyword and fault claims
\* C12: when the ingested items of a retailer have carried the same status
\* keyword k times, the store holds exactly one row for (retailer_id,
\* keyword) and its occurrence_count is k
C12_KeywordResightingIncrements ==
    lastItem.sighted >= 1 =>
        LET rows == {k \in availability_keywords :
                        k.retailer_id = RetailerId("datart") /\ k.keyword = "Skladem"}
        IN /\ Cardinality(rows) = 1
           /\ \A k \in rows : k.occurrence_count = lastItem.sighted

\* the outcomes of process_scraped_item without the keywords table
SansKeywords(outs) == {[o EXCEPT !.db.keywords = {}] : o \in outs}

\* C13: whatever the store holds and whichever later step fails, an item that
\* carries a stock status text has the outcomes of the same item without one:
\* the keyword step's failure changes nothing of what process_scraped_item
\* resolves, stores and returns
C13_KeywordFailureNeverAborts ==
    \A url \in Urls, status \in StatusTexts, currency \in Currencies,
       category \in ItemCategories, fault \in Faults :
        LET item == Item(url, 100, <<>>, currency, category, lastItem.n + 1)
        IN SansKeywords(process_scraped_item(CurrentDb,
                            [item EXCEPT !.stock_status = status], 1, fault))
           = SansKeywords(process_scraped_item(CurrentDb, item, 1, fault))

C13_Witness ==
    /\ lastItem.outcome = "stored"
    /\ lastItem.status = "Skladem"
    /\ kw_get_by_retailer_and_keyword(availability_keywords, 1, "Skladem").raised
    /\ \E r \in scraped_data : r.id = lastItem.row /\ r.product_id # NullId

\* C14: an item that a fault-free call would store is stored also when its
\* product step, category step or product-to-category link fails
C14_ProductAndCategoryBestEffort ==
    (lastItem.storable /\ lastItem.failed \in {"product", "category", "link"})
        => /\ lastItem.outcome = "stored"
           /\ \E r \in scraped_data : r.id = lastItem.row


\* what a process_item call shows of an item: what it handed back, the step
\* that failed, and the item's own columns of the record it stored
Shown(outs) ==
    {[outcome |-> o.outcome, failed |-> o.failed,
      stored |-> {[url |-> r.url, retailer_id |-> r.retailer_id, price |-> r.price,
                   scraped_at |-> r.scraped_at, success |-> r.success] :
                     r \in {q \in o.db.rows : q.id = o.row /\ o.row # NullId}}] : o \in outs}

\* the items a crawl hands to the pipeline, stamped at
BatchItems(at) ==
    {[Item(url, 100, <<>>, currency, category, at) EXCEPT !.stock_status = status] :
        url \in Urls, currency \in Currencies, category \in ItemCategories,
        status \in {NullStr} \cup StatusTexts}

MaxChecked == 3

\* what a scraped field may hold: a string, "" or None
FieldTexts(text) == {NullStr, "", text}
\* product_name may also hold nothing but whitespace
NameTexts == FieldTexts("p") \cup {" "}
\* stock_info: a list of entries, an entry a dict ("in") or not one (None)
StockInfoLists == {<<>>, <<"in">>, <<NullStr>>}
\* specs: no key, a dict, or a list
SpecsShapes == {"absent", "dict", "list"}
\* selected_variant: no key, a dict with an offer dict, a dict whose offer is None
SelectedShapes == {"absent", "dict", "offer_none"}
\* variants and images: no key, or a list whose entries are numbers
ListShapes == {"absent", "numbers"}

\* the optional fields of an item: all absent, or one of them present
NoOptional ==
    [stock_info |-> <<>>, specs |-> "absent", selected_variant |-> "absent",
     variants |-> "absent", images |-> "absent"]
OptionalFields ==
    {[NoOptional EXCEPT !.stock_info = x] : x \in StockInfoLists}
    \cup {[NoOptional EXCEPT !.specs = x] : x \in SpecsShapes}
    \cup {[NoOptional EXCEPT !.selected_variant = x] : x \in SelectedShapes}
    \cup {[NoOptional EXCEPT !.variants = x] : x \in ListShapes}
    \cup {[NoOptional EXCEPT !.images = x] : x \in ListShapes}

ScrapedItems ==
    {[url |-> u, website |-> w, product_name |-> p, success |-> ok,
      stock_info |-> o.stock_info, specs |-> o.specs,
      selected_variant |-> o.selected_variant, variants |-> o.variants,
      images |-> o.images] :
        u \in FieldTexts("u1"), w \in FieldTexts("datart"), p \in NameTexts,
        ok \in BOOLEAN, o \in OptionalFields}

required_fields == <<"url", "website", "product_name">>

\* _clean_text: " ".join(text.strip().split()), from the character i on;
\* gap tells that a space run was passed since the last word character
RECURSIVE JoinWords(_, _, _, _)
JoinWords(s, i, out, gap) ==
    IF i > Len(s) THEN out
    ELSE IF s[i] = " " THEN JoinWords(s, i + 1, out, TRUE)
    ELSE JoinWords(s, i + 1,
                   (IF gap /\ out # <<>> THEN out \o <<" ">> ELSE out) \o <<s[i]>>, FALSE)
clean_text(s) == JoinWords(s, 1, <<>>, FALSE)

\* the characters of a product name; the names at hand have one at most
NameChars(name) == IF name \in {NullStr, ""} THEN <<>> ELSE <<name>>

\* a required field counts as missing only when the key is absent
MissingOnlyAbsent(item, field) == item[field] = NullStr

\* `not adapter.get(field)`: absent, None or empty
Missing(item, field) == item[field] \in {NullStr, ""}

\* the loop over required_fields: the first missing one, None when none is
RECURSIVE FirstMissing(_, _)
FirstMissing(item, i) ==
    IF i > Len(required_fields) THEN NullStr
    ELSE IF Missing(item, required_fields[i]) THEN required_fields[i]
    ELSE FirstMissing(item, i + 1)

\* _clean_stock_info(info): `'status' in stock_info` raises TypeError on a
\* value that is not a container
clean_stock_info_raises(info) == info = NullStr

\* _clean_specs(specs): specs.items() raises AttributeError on a list
clean_specs_raises(specs) == specs = "list"

\* _process_variant(variant) outside _process_variants: `'price' in offer`
\* raises TypeError when the offer is None
process_variant_raises(variant) == variant = "offer_none"

\* _process_variants(variants): each entry under its own try/except, a
\* failing entry is skipped; _validate_image_urls skips what is not a string
process_variants(variants) == IF variants = "numbers" THEN "empty" ELSE variants
validate_image_urls(images) == IF images = "numbers" THEN "empty" ELSE images

\* does the try block of process_item (lines 39-75) raise
CleaningRaises(item) ==
    \/ process_variant_raises(item.selected_variant)
    \/ \E i \in DOMAIN item.stock_info : clean_stock_info_raises(item.stock_info[i])
    \/ clean_specs_raises(item.specs)

\* a drop that leaves items_dropped as it was
DroppedUncounted(dropped) == dropped

\* self.items_dropped += 1
Dropped(dropped) == dropped + 1

\* ProductValidationPipeline.process_item: the counters after the call, what
\* it did ("accepted": returned the item, "rejected": raised DropItem) and
\* the reason of the DropItem, and product_name as the call leaves it
validation_process_item(processed, dropped, item) ==
    LET missing == FirstMissing(item, 1)
    IN IF missing # NullStr
       THEN [outcome |-> "rejected", reason |-> missing,
             product_name |-> NameChars(item.product_name),
             items_processed |-> processed, items_dropped |-> Dropped(dropped)]
       ELSE IF CleaningRaises(item)
       THEN [outcome |-> "rejected", reason |-> "error",
             product_name |-> NameChars(item.product_name),
             items_processed |-> processed, items_dropped |-> Dropped(dropped)]
       ELSE [outcome |-> "accepted", reason |-> "none",
             product_name |-> clean_text(NameChars(item.product_name)),
             items_processed |-> processed + 1, items_dropped |-> dropped]

\* the item as DatabasePipeline gets it from the validation stage
Validated(item, timestamp) ==
    [Item(item.url, 100, item.stock_info, "CZK", <<>>, timestamp)
        EXCEPT !.success = item.success]

\* one item through ITEM_PIPELINES: ProductValidationPipeline (300), then
\* DatabasePipeline (400) unless the first raised DropItem
CrawlItem(spider, item) ==
    /\ lastValid.calls < MaxChecked
    /\ LET v == validation_process_item(items_processed, items_dropped, item)
       IN /\ items_processed' = v.items_processed
          /\ items_dropped' = v.items_dropped
          /\ lastValid' = [calls |-> lastValid.calls + 1, outcome |-> v.outcome,
                           reason |-> v.reason, url |-> item.url, website |-> item.website,
                           product_name |-> item.product_name, success |-> item.success,
                           cleaned |-> v.product_name]
          /\ IF v.outcome = "accepted"
             THEN ProcessItemEffect(spider, Validated(item, lastValid.calls + 1), "none")
             ELSE UNCHANGED <<sdVars, categories, catSeq>>
    /\ UNCHANGED <<lastCat, hashOf, resolver, rpVars, phVars, now, schema, priceVars, aggItem, finder>>

NextValidate == \E spider \in Spiders, item \in ScrapedItems : CrawlItem(spider, item)
InitValidate == InitIngest /\ schema = "legacy"
SpecValidate == InitValidate /\ [][NextValidate]_vars

\* ----------------------------------------------------------- validation claims
\* the required fields of the last item checked, in the order of the check
LastRequired == <<lastValid.url, lastValid.website, lastValid.product_name>>
LastMissing == {i \in 1 .. 3 : LastRequired[i] \in {NullStr, ""}}

\* C16: an item whose url, website or product_name is missing or empty is
\* rejected with the reason naming the first such field in that order, and
\* the call that rejects it leaves the store and the database stage untouched
C16_RequiredFieldRejectedBeforeStore ==
    /\ []((lastValid.calls > 0 /\ LastMissing # {}) =>
            /\ lastValid.outcome = "rejected"
            /\ \E i \in LastMissing :
                  /\ \A j \in LastMissing : i <= j
                  /\ lastValid.reason = <<"url", "website", "product_name">>[i])
    /\ [][(lastValid'.calls = lastValid.calls + 1
           /\ \E f \in {lastValid'.url, lastValid'.website, lastValid'.product_name} :
                 f \in {NullStr, ""})
          => UNCHANGED <<sdVars, catVars, rpVars, phVars>>]_vars

C16_Witness ==
    /\ lastValid.outcome = "rejected"
    /\ lastValid.reason = "product_name"
    /\ lastValid.url = "u1" /\ lastValid.website = "datart"
    /\ lastValid.product_name = NullStr
    /\ ~lastValid.success
    /\ lastItem.n = 0

\* C17: an item with non-empty url, website and product_name is accepted
\* whatever its optional fields hold
C17_OptionalGarbageNeverFatal ==
    (lastValid.calls > 0 /\ LastMissing = {}) => lastValid.outcome = "accepted"

\* C18: the two counters add up to the number of calls, and each call adds
\* exactly 1 to items_processed when it returns the item and exactly 1 to
\* items_dropped when it rejects it, leaving the other as it was
C18_CountersPartitionCalls ==
    /\ [](items_processed + items_dropped = lastValid.calls)
    /\ [][lastValid'.calls = lastValid.calls + 1 =>
            /\ lastValid'.outcome \in {"accepted", "rejected"}
            /\ lastValid'.outcome = "accepted" =>
                  items_processed' = items_processed + 1 /\ items_dropped' = items_dropped
            /\ lastValid'.outcome = "rejected" =>
                  items_dropped' = items_dropped + 1 /\ items_processed' = items_processed]_vars

C18_Witness ==
    /\ lastValid.calls = 3
    /\ items_processed = 1
    /\ items_dropped = 2
    /\ lastValid.reason = "error"


\* ------------------------------------------------------------ price texts
MaxText == 6

\* the characters of a price text: digits, both separators, a space and a
\* currency letter
PriceDigits == {"0", "1"}
PriceChars == PriceDigits \cup {".", ",", " ", "K"}
PriceTexts == UNION {[1 .. n -> PriceChars] : n \in 0 .. MaxText}

\* str.replace(c, "")
Without(s, c) == SelectSeq(s, LAMBDA x : x # c)
\* re.sub(r'[^\d,.]', '', s)
OnlyNumberChars(s) == SelectSeq(s, LAMBDA x : x \in PriceDigits \cup {".", ","})
\* str.replace(",", ".")
CommaToDot(s) == [i \in DOMAIN s |-> IF s[i] = "," THEN "." ELSE s[i]]
Count(s, c) == Cardinality({i \in DOMAIN s : s[i] = c})

\* the separators with every comma turned into a dot and the dots kept
CommaToDotOnly(s) == IF Count(s, ",") > 0 THEN CommaToDot(s) ELSE s

\* lines 154-155: with a comma in the text the dots go and the commas become dots
NormalizeSeparators(s) == IF Count(s, ",") > 0 THEN CommaToDot(Without(s, ".")) ELSE s

\* int of a string of digits, 0 for the empty one
RECURSIVE DigitsValue(_)
DigitsValue(s) ==
    IF s = <<>> THEN 0
    ELSE 10 * DigitsValue(SubSeq(s, 1, Len(s) - 1)) + (IF s[Len(s)] = "1" THEN 1 ELSE 0)

\* a decimal digits / 10^scale without its trailing zeros: equal numbers have
\* equal representations
RECURSIVE Normal(_, _)
Normal(digits, scale) ==
    IF scale > 0 /\ digits % 10 = 0 THEN Normal(digits \div 10, scale - 1)
    ELSE [digits |-> digits, scale |-> scale]

\* float(s) for s of digits and dots: ValueError unless s has a digit and at
\* most one dot
float(s) ==
    IF Count(s, ".") > 1 \/ Without(s, ".") = <<>>
    THEN [error |-> TRUE, digits |-> 0, scale |-> 0]
    ELSE LET dot == IF Count(s, ".") = 0 THEN Len(s) + 1
                    ELSE CHOOSE i \in DOMAIN s : s[i] = "."
             n   == Normal(DigitsValue(Without(s, ".")), Len(s) - dot + (IF dot > Len(s) THEN 1 ELSE 0))
         IN [error |-> FALSE, digits |-> n.digits, scale |-> n.scale]

\* ProductValidationPipeline._extract_price: None for an empty text and for
\* a ValueError of float, the number otherwise
extract_price(raw_price) ==
    IF raw_price = <<>> THEN [NotCalled EXCEPT !.called = TRUE]
    ELSE LET price_str == NormalizeSeparators(OnlyNumberChars(Without(raw_price, " ")))
             f == float(price_str)
         IN [called |-> TRUE, parsed |-> ~f.error, digits |-> f.digits, scale |-> f.scale]

ExtractPrice ==
    /\ ~priceOut.called
    /\ priceOut' = extract_price(priceIn)
    /\ UNCHANGED <<catVars, rpVars, sdVars, phVars, valVars, now, schema, priceIn, aggItem, finder>>

InitPrice == InitEither /\ schema = "current" /\ priceIn \in PriceTexts
SpecPrice == InitPrice /\ [][ExtractPrice]_vars

\* -------------------------------------------------------- price text claims
\* the digits of a text, in order
DigitsOf(s) == SelectSeq(s, LAMBDA x : x \in PriceDigits)

\* a text in the Central-European form: digits, one comma, and no dot after
\* the comma
CommaDecimal(s) ==
    /\ Count(s, ",") = 1
    /\ DigitsOf(s) # <<>>
    /\ \A i, j \in DOMAIN s : (s[i] = "," /\ s[j] = ".") => j < i

\* the number such a text stands for: all its digits, as many of them after
\* the decimal point as follow the comma
CommaDecimalValue(s) ==
    LET comma == CHOOSE i \in DOMAIN s : s[i] = ","
    IN Normal(DigitsValue(DigitsOf(s)), Len(DigitsOf(SubSeq(s, comma + 1, Len(s)))))

\* C19: _extract_price returns for every text; for a text with '.' as
\* thousands separator and one ',' as decimal separator, whatever symbols and
\* spaces it has, it gives the number with the dots removed and the comma as
\* decimal point; for a text without a digit it gives None
C19_ExtractPriceParses ==
    priceOut.called =>
        /\ CommaDecimal(priceIn) =>
              /\ priceOut.parsed
              /\ [digits |-> priceOut.digits, scale |-> priceOut.scale]
                    = CommaDecimalValue(priceIn)
        /\ DigitsOf(priceIn) = <<>> => ~priceOut.parsed

C19_Witness ==
    /\ priceOut.called
    /\ priceIn = <<"1", ".", "0", ",", "1", "K">>
    /\ priceOut = [called |-> TRUE, parsed |-> TRUE, digits |-> 101, scale |-> 1]


\* ------------------------------------------------------ retailer performance
\* ScrapedDataRepository.get_failed_scrapes at the time at: success false,
\* scraped_at >= at - days, and the retailer's when a retailer is given
get_failed_scrapes(retailer_id, days, at) ==
    {r \in scraped_data :
        /\ ~r.success
        /\ r.scraped_at >= at - days
        /\ retailer_id # NullId => r.retailer_id = retailer_id}

\* a filter value of find_by: a plain value, or a dict such as {"gte": ...}
Scalar(v) == [kind |-> "scalar", v |-> v]
DictOf(v) == [kind |-> "dict", v |-> v]

\* BaseRepository.find_by on scraped_data: every filter becomes .eq(field,
\* value).  A dict compared for equality with the timestamp column is either
\* rejected by the store (the call raises) or equal to no row
find_by(retailer_id, scraped_at) ==
    LET rows == {r \in scraped_data :
                    /\ retailer_id.kind = "scalar" /\ r.retailer_id = retailer_id.v
                    /\ scraped_at.kind = "scalar" /\ r.scraped_at = scraped_at.v}
    IN IF scraped_at.kind = "dict" \/ retailer_id.kind = "dict"
       THEN {[raised |-> TRUE, rows |-> {}], [raised |-> FALSE, rows |-> rows]}
       ELSE {[raised |-> FALSE, rows |-> rows]}

\* a ratio as numerator and denominator, 0 as 0/1
Rate(total, failed) ==
    IF total > 0 THEN [num |-> total - failed, den |-> total] ELSE [num |-> 0, den |-> 1]

\* ScrapingService.get_retailer_performance at the time at: the possible
\* reports, raised when the call ends in the store's error
get_retailer_performance(retailer_id, days, at) ==
    LET failed_count == Cardinality(get_failed_scrapes(retailer_id, days, at))
    IN {[raised |-> all.raised,
         total_scrapes |-> Cardinality(all.rows),
         failed_scrapes |-> failed_count,
         success_rate |-> Rate(Cardinality(all.rows), failed_count)] :
            all \in find_by(Scalar(retailer_id), DictOf(at - days))}

\* C20: get_retailer_performance returns a report whose total_scrapes is the
\* number of the retailer's records inside the trailing window, whose
\* failed_scrapes is the number of those with success false, and whose
\* success_rate is (total - failed) / total, 0 for an empty window
C20_RetailerSuccessRate ==
    \A days \in {1, DefaultDays}, at \in 1 .. MaxChecked + 1 :
        LET window == {r \in scraped_data : r.retailer_id = 1 /\ r.scraped_at >= at - days}
            failed == {r \in window : ~r.success}
        IN \A report \in get_retailer_performance(1, days, at) :
              /\ ~report.raised
              /\ report.total_scrapes = Cardinality(window)
              /\ report.failed_scrapes = Cardinality(failed)
              /\ report.success_rate =
                    (IF window = {} THEN [num |-> 0, den |-> 1]
                     ELSE [num |-> Cardinality(window) - Cardinality(failed),
                           den |-> Cardinality(window)])


\* ------------------------------------------------------ competitor snapshot
MaxOffers == 3

\* the loop of get_competitor_prices over the rows s from row i on: the first
\* row seen of a retailer with a truthy price sets the retailer's entry
RECURSIVE FirstSeenPrices(_, _, _)
FirstSeenPrices(s, i, retailer_prices) ==
    IF i > Len(s) THEN retailer_prices
    ELSE FirstSeenPrices(s, i + 1,
            IF (\A e \in retailer_prices : e[1] # s[i].retailer_id) /\ Truthy(s[i].price)
            THEN retailer_prices \cup {<<s[i].retailer_id, s[i].price>>}
            ELSE retailer_prices)

\* ScrapedDataRepository.get_competitor_prices: the possible results, one for
\* each order the store may return rows of equal scraped_at in
get_competitor_prices(product_id) ==
    {FirstSeenPrices(s, 1, {}) :
        s \in OrderBy({r \in scraped_data : r.product_id = product_id}, TRUE)}

\* two mapped spiders scraping the same product
Competitors == {"datart", "euronics"}

RecordOffer(spider, price) ==
    /\ lastItem.n < MaxOffers
    /\ ProcessItemStep(spider, Item("u1", price, <<>>, "CZK", <<>>, lastItem.n + 1), "none")

NextSnapshot == \E spider \in Competitors, price \in ItemPrices : RecordOffer(spider, price)
SpecSnapshot == InitSeries /\ [][NextSnapshot]_vars

\* the retailer's records of the product that carry a price
PricedRecords(product_id, retailer_id) ==
    {r \in scraped_data : /\ r.product_id = product_id
                          /\ r.retailer_id = retailer_id
                          /\ r.price # NullPrice}

\* C21: get_competitor_prices has at most one entry per retailer, an entry
\* for every retailer with a priced record of the product, and each entry's
\* price is that of the retailer's latest priced record
C21_CompetitorSnapshot ==
    \A result \in get_competitor_prices(1) :
        /\ \A e, f \in result : e[1] = f[1] => e = f
        /\ \A retailer_id \in {1, 2} :
              LET priced == PricedRecords(1, retailer_id)
              IN IF priced = {} THEN \A e \in result : e[1] # retailer_id
                 ELSE \E r \in priced :
                         /\ \A q \in priced : q.scraped_at <= r.scraped_at
                         /\ <<retailer_id, r.price>> \in result

\* the same with a zero price counted as no price
SnapshotOfNonZeroPrices ==
    \A result \in get_competitor_prices(1) :
        /\ \A e, f \in result : e[1] = f[1] => e = f
        /\ \A retailer_id \in {1, 2} :
              LET priced == {r \in PricedRecords(1, retailer_id) : r.price # 0}
              IN IF priced = {} THEN \A e \in result : e[1] # retailer_id
                 ELSE \E r \in priced :
                         /\ \A q \in priced : q.scraped_at <= r.scraped_at
                         /\ <<retailer_id, r.price>> \in result


\* ---------------------------------------------------------- selected variant
MaxSelects == 2

\* the fields AggregatorProductItem and ProductItem declare, of those the
\* model carries
DeclaredFields == {"price", "raw_price", "selected_variant"}

\* scrapy.Item.__setitem__: KeyError for a field the class does not declare
SetField(item, field, value) ==
    IF field \in DeclaredFields
    THEN [raised |-> FALSE, item |-> [item EXCEPT ![field] = value]]
    ELSE [raised |-> TRUE, item |-> item]

\* the offers a spider builds: a price text or None, a raw price text or
\* None, a stock status or no such key
OfferPrices == {PyNone, PyText(<<"1", "0">>), PyText(<<"1", ",", "1", " ", "K">>)}
RawPrices == {PyNone, PyText(<<" ", "1", "0", " ", " ", "K">>)}
Offers == [price : OfferPrices, raw_price : RawPrices, stock_status : {NullStr, "in", "out"}]
Skus == {"s", "t"}
Variants ==
    {[selected |-> TRUE, sku |-> sku, has_offer |-> TRUE, offer |-> o] :
        sku \in Skus, o \in Offers}
    \cup {[selected |-> TRUE, sku |-> sku, has_offer |-> FALSE, offer |-> NoVariant.offer] :
        sku \in Skus}

\* AggregatorProductItem.set_selected_variant: the item after the call and
\* whether the call raised; each assignment is a __setitem__
set_selected_variant(item, variant) ==
    LET i1 == [item EXCEPT !.selected_variant = variant]
    IN IF ~variant.has_offer THEN [raised |-> FALSE, item |-> i1]
       ELSE LET a == SetField(i1, "price", variant.offer.price)
                b == SetField(a.item, "raw_price", variant.offer.raw_price)
                c == SetField(b.item, "stock_status",
                              IF variant.offer.stock_status = NullStr THEN "UNKNOWN"
                              ELSE variant.offer.stock_status)
            IN [raised |-> a.raised \/ b.raised \/ c.raised, item |-> c.item]

\* str(value)
PyStr(v) == IF v.t = "None" THEN NoneStr ELSE v.s

\* _normalize_stock_status: cleaned and upper-cased
normalize_stock_status(status) ==
    IF status = "in" THEN "IN" ELSE IF status = "out" THEN "OUT" ELSE status

\* _extract_price(str(value)) as a field value
ExtractedPrice(v) ==
    LET r == extract_price(PyStr(v))
    IN IF r.parsed THEN PyFloat([digits |-> r.digits, scale |-> r.scale]) ELSE PyNone

\* _process_variant on a variant with its offer keys present
process_variant(variant) ==
    IF ~variant.selected THEN variant
    ELSE IF ~variant.has_offer THEN variant
    ELSE [variant EXCEPT
            !.offer = [price |-> ExtractedPrice(variant.offer.price),
                       raw_price |-> PyText(clean_text(PyStr(variant.offer.raw_price))),
                       stock_status |-> normalize_stock_status(variant.offer.stock_status)]]

\* lines 48-56 of ProductValidationPipeline.process_item: the selected
\* variant processed, the price and raw_price of its offer copied to the item
validate_selected_variant(item) ==
    IF ~item.selected_variant.selected THEN item
    ELSE LET v == process_variant(item.selected_variant)
         IN IF v.has_offer
            THEN [item EXCEPT !.selected_variant = v, !.price = v.offer.price,
                              !.raw_price = v.offer.raw_price]
            ELSE [item EXCEPT !.selected_variant = v]

SelectVariant(variant) ==
    /\ aggItem.selects < MaxSelects
    /\ aggItem.op # "validate"
    /\ LET r == set_selected_variant(aggItem.item, variant)
       IN aggItem' = [item |-> r.item, op |-> "select", raised |-> r.raised,
                      selects |-> aggItem.selects + 1, variant |-> variant]
    /\ UNCHANGED <<catVars, rpVars, sdVars, phVars, valVars, priceVars, now, schema, finder>>

\* the validation stage on an item that carries a selected variant
ValidateSelected ==
    /\ aggItem.op = "select"
    /\ aggItem' = [aggItem EXCEPT !.item = validate_selected_variant(aggItem.item),
                                  !.op = "validate", !.raised = FALSE]
    /\ UNCHANGED <<catVars, rpVars, sdVars, phVars, valVars, priceVars, now, schema, finder>>

NextVariant ==
    \/ \E variant \in Variants : SelectVariant(variant)
    \/ ValidateSelected
InitVariant == InitTree
SpecVariant == InitVariant /\ [][NextVariant]_vars

\* C22: after a variant with an offer was selected, by set_selected_variant
\* or by the validation stage, the operation has not raised and the item's
\* price, raw_price and stock status are those of the selected variant's offer
C22_SelectedVariantPropagates ==
    (aggItem.op # "none" /\ aggItem.item.selected_variant.has_offer) =>
        LET offer == aggItem.item.selected_variant.offer
        IN /\ ~aggItem.raised
           /\ aggItem.item.price = offer.price
           /\ aggItem.item.raw_price = offer.raw_price
           /\ aggItem.item.stock_status =
                 (IF offer.stock_status = NullStr /\ aggItem.op = "select"
                  THEN "UNKNOWN" ELSE offer.stock_status)


\* ------------------------------------------------- category updates, failing
\* a client that works with two explicit ids and one name
FewIds == {1, 2}

NextRevise ==
    \/ \E id \in {NullId} \cup FewIds, parent \in {NullId} \cup FewIds :
          CreateCategory(id, "A", parent)
    \/ \E id \in OptIds, parent \in OptIds : UpdateCategory(id, parent)

SpecRevise == InitTree /\ [][NextRevise]_vars

\* C23: on every stored tree, CategoryRepository.update fails and leaves
\* every category row as it was when the record has no id, when no category
\* has the record's id, and when the new parent_id is the id of no category
C23_FailedUpdateChangesNothing ==
    \A id \in OptIds, name \in Names, parent \in OptIds :
        LET m == CategoryData(id, name, parent, NullPath)
            r == CatUpdate(categories, m)
        IN (\/ id = NullId
            \/ get_by_id(categories, id) = {}
            \/ (parent # NullId /\ get_by_id(categories, parent) = {}))
           => (~r.ok /\ r.cats = categories)

C23_Witness ==
    /\ lastCat.op = "update"
    /\ ~lastCat.ok
    /\ categories # {}
    /\ get_by_id(categories, lastCat.id) # {}
    /\ lastCat.parent # NullId
    /\ get_by_id(categories, lastCat.parent) = {}


\* --------------------------------------------------------- ancestor query
EndsWith(s, p) == Len(s) >= Len(p) /\ SubSeq(s, Len(s) - Len(p) + 1, Len(s)) = p

\* CategoryRepository.get_ancestors: path <> '<path>' and path LIKE '%.<path>'
get_ancestors(cats, path) ==
    {c \in cats : c.path # NullPath /\ c.path # FStr(path)
                  /\ EndsWith(c.path, Dot \o FStr(path))}

\* C24: on a tree where every category has the path of the path invariant,
\* get_ancestors(path) of a stored category returns exactly the categories
\* whose path followed by "." is a prefix of the given path
C24_AncestorsAreProperPrefixes ==
    (\A c \in categories : PathOk(c, categories)) =>
        \A c \in categories :
            get_ancestors(categories, c.path)
            = {a \in categories : a.path # NullPath /\ StartsWith(c.path, a.path \o Dot)}


\* ------------------------------------------- category paths under failure
\* raw paths of one and of two labels
PathLabels == {<<"A">>, <<"A", "B">>, <<"B", "A">>}
CreateFaults == {"none", "create1", "create2"}

ResolvePath(url, labels, fault) ==
    /\ lastItem.n < MaxItems
    /\ ProcessItemStep("datart", Item(url, 100, <<>>, "CZK", labels, lastItem.n + 1), fault)

NextPaths ==
    \E url \in Urls, labels \in PathLabels, fault \in CreateFaults :
        ResolvePath(url, labels, fault)
SpecPaths == InitSeries /\ [][NextPaths]_vars

\* C25: when the create call for the k-th label of a raw path fails, the
\* item gets no record and no category_id, no stored product is changed and
\* a product the call created has no category, no category is created for a
\* later label, and the categories the call created for the labels before k
\* stay stored; when no create call is made for the k-th label the call is a
\* fault-free one
C25_MidPathFailure ==
    \A url \in Urls, labels \in PathLabels, k \in 1 .. 2 :
        LET item   == Item(url, 100, <<>>, "CZK", labels, lastItem.n + 1)
            fault  == IF k = 1 THEN "create1" ELSE "create2"
            clean  == process_scraped_item(CurrentDb, item, 1, "none")
        IN \A r \in process_scraped_item(CurrentDb, item, 1, fault) :
              \/ r \in clean
              \/ /\ ~r.ok /\ r.failed = "category" /\ r.row = NullId
                 /\ k <= Len(labels)
                 /\ r.db.rows = scraped_data
                 /\ \A q \in r.db.products :
                       IF q \in products THEN TRUE
                       ELSE q.category_id = NullId /\ \A o \in products : o.id # q.id
                 /\ categories \subseteq r.db.cats
                 /\ Cardinality(r.db.cats \ categories) < k
                 /\ \A c \in r.db.cats \ categories : \E j \in 1 .. k - 1 : c.name = labels[j]
                 /\ \E o \in clean :
                       {c \in o.db.cats : \E d \in r.db.cats \ categories : d.id = c.id}
                       = r.db.cats \ categories

C25_Witness ==
    /\ lastItem.n = 1
    /\ lastItem.failed = "category"
    /\ lastItem.outcome = "dropped"
    /\ Cardinality(categories) = 1
    /\ \A c \in categories : c.name = "A"
    /\ scraped_data = {}


\* --------------------------------------------------------- product identity
MaxBranded == 3

\* the product names and brands of the items of a crawl
ProductNames == {"p", "q"}
ItemBrands == {NullStr, "x", "y"}

BrandedItem(name, brand, timestamp) ==
    [Item("u1", 100, <<>>, "CZK", <<>>, timestamp)
        EXCEPT !.product_name = name, !.brand = brand]

IngestBranded(name, brand) ==
    /\ lastItem.n < MaxBranded
    /\ ProcessItemStep("datart", BrandedItem(name, brand, lastItem.n + 1), "none")

NextBrands == \E name \in ProductNames, brand \in ItemBrands : IngestBranded(name, brand)
SpecBrands == InitSeries /\ [][NextBrands]_vars

\* C26: process_scraped_item links the item's record to a product whose name
\* and brand are the item's (no brand only with no brand): a stored one that
\* matches, or else one it creates
C26_ProductMatchesNameAndBrand ==
    \A name \in ProductNames, brand \in ItemBrands :
        \A r \in process_scraped_item(CurrentDb, BrandedItem(name, brand, lastItem.n + 1),
                                      1, "none") :
            r.ok =>
                \E row \in r.db.rows, q \in r.db.products :
                    /\ row.id = r.row
                    /\ q.id = row.product_id
                    /\ q.name = name
                    /\ q.brand = brand
                    /\ q \notin products =>
                          ~\E o \in products : o.name = name /\ o.brand = brand


\* --------------------------------------------- product identity, concurrent
\* process_scraped_item of an item without stock status and category is
\* three awaits: get_by_name_and_brand, product_repo.create when nothing was
\* found, scraped_data_repo.create.  Calls in flight interleave at the awaits.

\* await product_repo.get_by_name_and_brand(product_name, brand)
LookupProduct(w, brand) ==
    /\ schema = "legacy"
    /\ finder[w].pc = "idle"
    /\ \E found \in {q.id : q \in get_by_name_and_brand(products, "p", brand)}
                 \cup (IF get_by_name_and_brand(products, "p", brand) = {}
                       THEN {NullId} ELSE {}) :
          finder' = [finder EXCEPT ![w] = [pc |-> "looked", brand |-> brand, found |-> found,
                                           product_id |-> NullId, row |-> NullId]]
    /\ UNCHANGED <<catVars, rpVars, sdVars, phVars, valVars, priceVars, now, schema, aggItem>>

\* `if product: return product`, else await product_repo.create(new_product):
\* a plain insert, the products table has no unique constraint on name, brand
LinkProduct(w) ==
    /\ finder[w].pc = "looked"
    /\ IF finder[w].found # NullId
       THEN /\ finder' = [finder EXCEPT ![w].pc = "linked", ![w].product_id = finder[w].found]
            /\ UNCHANGED <<products, prodSeq>>
       ELSE /\ products' = products \cup {[id |-> prodSeq + 1, name |-> "p",
                                           brand |-> finder[w].brand,
                                           category_id |-> NullId]}
            /\ prodSeq' = prodSeq + 1
            /\ finder' = [finder EXCEPT ![w].pc = "linked", ![w].product_id = prodSeq + 1]
    /\ UNCHANGED <<catVars, rpVars, phVars, valVars, priceVars, now, schema, aggItem,
                   scraped_data, sdSeq, lastItem, availability_keywords, dbPipeline>>

\* await scraped_data_repo.create(scraped_data)
StoreRecord(w) ==
    /\ finder[w].pc = "linked"
    /\ scraped_data' = scraped_data \cup
          {ScrapedRow(sdSeq + 1, [Item("u1", 100, <<>>, "CZK", <<>>, w)
                                     EXCEPT !.brand = finder[w].brand],
                      1, finder[w].product_id, NullId)}
    /\ sdSeq' = sdSeq + 1
    /\ finder' = [finder EXCEPT ![w].pc = "done", ![w].row = sdSeq + 1]
    /\ UNCHANGED <<catVars, rpVars, phVars, valVars, priceVars, now, schema, aggItem,
                   products, prodSeq, lastItem, availability_keywords, dbPipeline>>

NextFinders ==
    \/ \E w \in Finders, brand \in ItemBrands : LookupProduct(w, brand)
    \/ \E w \in Finders : LinkProduct(w)
    \/ \E w \in Finders : StoreRecord(w)
SpecFinders == InitSeries /\ [][NextFinders]_vars

\* C27: when two concurrent process_scraped_item calls on items of the same
\* name and brand have both returned, products holds exactly one row of that
\* name and brand and both records are linked to it
C27_NoDuplicateProducts ==
    (\A w \in Finders : finder[w].pc = "done"
        /\ finder[1].brand = finder[2].brand) =>
        LET same == {q \in products : q.name = "p" /\ q.brand = finder[1].brand}
        IN /\ Cardinality(same) = 1
           /\ \A w \in Finders : \E q \in same : finder[w].product_id = q.id


\* ------------------------------------------------------ shape of the tree
\* following parent_id from category id for at most fuel steps ends at a
\* category without a parent
RECURSIVE ReachesRoot(_, _, _)
ReachesRoot(cats, id, fuel) ==
    LET here == {c \in cats : c.id = id}
    IN IF here = {} THEN FALSE
       ELSE LET c == CHOOSE x \in here : TRUE
            IN IF c.parent_id = NullId THEN TRUE
               ELSE IF fuel = 0 THEN FALSE
               ELSE ReachesRoot(cats, c.parent_id, fuel - 1)

\* C28: after any sequence of create and update calls, following parent_id
\* from every category reaches a root in finitely many steps: no category is
\* its own parent or a child of one of its own descendants
C28_TreeStaysForest ==
    \A c \in categories : ReachesRoot(categories, c.id, Cardinality(categories))


\* ------------------------------------------------ success rate as a ratio
\* C29: in every report of get_retailer_performance the failed records are
\* among the records counted: failed_scrapes <= total_scrapes and
\* 0 <= success_rate <= 1
C29_SuccessRateIsProportion ==
    \A retailer_id \in {1, 2}, days \in {1, DefaultDays}, at \in 1 .. MaxChecked + 1 :
        \A report \in get_retailer_performance(retailer_id, days, at) :
            ~report.raised =>
                /\ report.failed_scrapes <= report.total_scrapes
                /\ 0 <= report.success_rate.num
                /\ report.success_rate.num <= report.success_rate.den


\* ------------------------------------------------- accepted product names
\* C30: every item the validation stage returns has a non-empty product_name
\* after cleaning and a non-empty url and website; a product_name made only
\* of whitespace is never accepted
C30_AcceptedKeepsRequiredFields ==
    (lastValid.calls > 0 /\ lastValid.outcome = "accepted") =>
        /\ lastValid.cleaned # <<>>
        /\ lastValid.url \notin {NullStr, ""}
        /\ lastValid.website \notin {NullStr, ""}
        /\ lastValid.product_name # " "

====
